---- MODULE Spec2Model ----
(***************************************************************************)
(* Model of the staged interview controller AIInterviewer and of the       *)
(* command-line loop run_interview (AI_Interviewer.py).                    *)
(*                                                                         *)
(* Texts (questions, answers, replies of the generation service) are      *)
(* sequences of one-character strings, so that str.strip, str.lower and    *)
(* the substring operator `in` are computed character by character.        *)
(***************************************************************************)
EXTENDS Integers, Sequences, FiniteSets, TLC

(***************************************************************************)
(* Bounds of the model.                                                    *)
(***************************************************************************)
\* Exchanges a session may record before process_response is disabled
\* (specification Spec).
MaxTurns == 2

\* Exchanges one session of run_interview may record (specification SpecRun).
MaxRunTurns == 6

\* Turns that are not affirmative decisions (answers in introduction and in
\* closing, answers followed by a decision without "YES") are taken while
\* the session has recorded fewer exchanges than this (specification
\* SpecLive).
MaxLiveTurns == 8

\* Exchanges a session may record when only get_next_question,
\* process_response and initialize_session are called (specification
\* SpecFlow).
MaxFlowTurns == 4

(***************************************************************************)
(* Python values.                                                          *)
(***************************************************************************)
\* Python's None; a one-element tuple that is no text, so that it compares
\* with texts.
None == <<"<None>">>

\* An exception raised by the generation service (question_chain.run or
\* should_advance_chain.run) and, as a return value, the fact that the call
\* ended by that exception.
GenerationError == <<"<GenerationError>">>

\* bool(x) for the values a session holds: None, "" and {} are falsy.
Truthy(x) == x # None /\ x # <<>>

Min(S) == CHOOSE x \in S : \A y \in S : x <= y

Max(S) == CHOOSE x \in S : \A y \in S : x >= y

\* Characters str.strip() removes.
Whitespace == {" ", "\t", "\n"}

\* str.strip(): drop leading and trailing whitespace.
strip(s) ==
    LET keep == {i \in 1..Len(s) : s[i] \notin Whitespace}
    IN  IF keep = {} THEN <<>> ELSE SubSeq(s, Min(keep), Max(keep))

UpperCase == <<"A", "B", "C", "D", "E", "F", "G", "H", "I", "J", "K", "L", "M", "N",
      "O", "P", "Q", "R", "S", "T", "U", "V", "W", "X", "Y", "Z">>

LowerCase == <<"a", "b", "c", "d", "e", "f", "g", "h", "i", "j", "k", "l", "m", "n",
      "o", "p", "q", "r", "s", "t", "u", "v", "w", "x", "y", "z">>

lowerChar(c) ==
    IF \E i \in 1..Len(UpperCase) : UpperCase[i] = c
    THEN LowerCase[CHOOSE i \in 1..Len(UpperCase) : UpperCase[i] = c]
    ELSE c

\* str.lower()
lower(s) == [i \in 1..Len(s) |-> lowerChar(s[i])]

\* sub in s
Contains(sub, s) ==
    \E i \in 0..(Len(s) - Len(sub)) : SubSeq(s, i + 1, i + Len(sub)) = sub

(***************************************************************************)
(* Fixed texts of the program.                                             *)
(***************************************************************************)
NamePrompt ==
    <<"H", "e", "l", "l", "o", "!", " ", "I", "'", "m", " ", "y", "o", "u",
      "r", " ", "A", "I", " ", "i", "n", "t", "e", "r", "v", "i", "e", "w",
      "e", "r", " ", "t", "o", "d", "a", "y", ".", " ", "C", "o", "u", "l",
      "d", " ", "y", "o", "u", " ", "p", "l", "e", "a", "s", "e", " ", "t",
      "e", "l", "l", " ", "m", "e", " ", "y", "o", "u", "r", " ", "n", "a",
      "m", "e", "?">>

RolePrompt(name) ==
    <<"N", "i", "c", "e", " ", "t", "o", " ", "m", "e", "e", "t", " ", "y",
      "o", "u", ",", " ">>
    \o name \o
    <<"!", " ", "W", "h", "a", "t", " ", "p", "o", "s", "i", "t", "i", "o",
      "n", " ", "a", "r", "e", " ", "y", "o", "u", " ", "a", "p", "p", "l",
      "y", "i", "n", "g", " ", "f", "o", "r", "?">>

WelcomePrompt(name, job) ==
    <<"T", "h", "a", "n", "k", " ", "y", "o", "u", ",", " ">>
    \o name \o
    <<".", " ", "L", "e", "t", "'", "s", " ", "b", "e", "g", "i", "n", " ",
      "t", "h", "e", " ", "i", "n", "t", "e", "r", "v", "i", "e", "w", " ",
      "f", "o", "r", " ", "t", "h", "e", " ">>
    \o job \o
    <<" ", "p", "o", "s", "i", "t", "i", "o", "n", ".", " ", "C", "o", "u",
      "l", "d", " ", "y", "o", "u", " ", "t", "e", "l", "l", " ", "m", "e",
      " ", "a", " ", "b", "i", "t", " ", "a", "b", "o", "u", "t", " ", "y",
      "o", "u", "r", "s", "e", "l", "f", " ", "a", "n", "d", " ", "y", "o",
      "u", "r", " ", "p", "r", "o", "f", "e", "s", "s", "i", "o", "n", "a",
      "l", " ", "b", "a", "c", "k", "g", "r", "o", "u", "n", "d", "?">>

UnknownName == <<"U", "n", "k", "n", "o", "w", "n">>

ThePosition == <<"t", "h", "e", " ", "p", "o", "s", "i", "t", "i", "o", "n">>

NoResumeInfo == <<"N", "o", " ", "r", "e", "s", "u", "m", "e", " ", "i", "n", "f", "o",
      "r", "m", "a", "t", "i", "o", "n", " ", "a", "v", "a", "i", "l", "a",
      "b", "l", "e", ".">>

YES == <<"Y", "E", "S">>

RestartCommand == <<"/", "r", "e", "s", "t", "a", "r", "t">>

ExitCommand == <<"/", "e", "x", "i", "t">>

ThankYouPhrase == <<"t", "h", "a", "n", "k", " ", "y", "o", "u", " ", "f", "o", "r", " ",
      "y", "o", "u", "r", " ", "t", "i", "m", "e">>

CompletePhrase == <<"i", "n", "t", "e", "r", "v", "i", "e", "w", " ", "i", "s", " ", "c",
      "o", "m", "p", "l", "e", "t", "e">>

stages ==
    <<"introduction", "general_questions", "technical_questions",
      "experience_questions", "behavioral_questions", "closing">>

\* stages.index(stage)
StageIndex(stage) == CHOOSE i \in 1..Len(stages) : stages[i] = stage

(***************************************************************************)
(* Inputs: operator answers, replies of the generation service, resumes.   *)
(***************************************************************************)
\* Answers passed to process_response: blank, plain, padded.
Answers ==
    { <<" ">>, <<"A">>, <<" ", "B", "\t">> }

\* Replies to the advance-decision prompt.
Decisions ==
    { <<"Y", "E", "S">>, <<"N", "O">>, <<"y", "e", "s">>, <<>>, <<"E", "Y", "E", "S", " ", "o", "k">> }

\* Replies to the question-generation prompt, under Spec and under SpecRun
\* (where the wording of a question can end the interview).
GeneratedQuestions ==
    { <<"W", "h", "y", "?">> }

RunGeneratedQuestions ==
    { <<"W", "h", "y", "?">>, <<"T", "h", "a", "n", "k", " ", "y", "o", "u", " ", "f", "o", "r", " ",
      "y", "o", "u", "r", " ", "t", "i", "m", "e", ".">> }

\* Resume records handed to set_resume_entities, as the tuple of their keys.
sample_resume_info == <<"skills", "experience", "education", "projects">>

ResumeInputs == { None, sample_resume_info }

\* str(resume_entities)
StrOf(r) == <<"{">> \o r \o <<"}">>

\* Lines typed at the prompt of run_interview.
RunInputs ==
    { <<"A">>, <<" ">>, <<"/", "R", "e", "s", "t", "a", "r", "t">>, <<"/", "E", "X", "I", "T">> }

\* Lines typed at the "Start a new interview? (y/n)" prompt.
ConfirmInputs ==
    { <<"Y">>, <<"n">> }

(***************************************************************************)
(* State.                                                                  *)
(***************************************************************************)
VARIABLES
    candidate_name,     \* self.candidate_name: None or a text
    job_position,       \* self.job_position: None or a text
    interview_stage,    \* self.interview_stage
    last_question,      \* self.last_question
    memory,             \* self.memory: the messages of the buffer, in order
    resume_entities,    \* self.resume_entities
    last_op,            \* the controller method called last
    arg,                \* its argument (None if it takes none)
    ret,                \* what it returned, or GenerationError if it raised
    calls,              \* the generation requests it issued, in order
    changed,            \* whether it left the session different from before
    pending,            \* last_question holds an emitted, unrecorded question
    pc,                 \* position of run_interview
    question,           \* run_interview's local `question`
    response,           \* run_interview's local `response`
    interview_active,   \* run_interview's local `interview_active`
    affirmed            \* decisions that contained "YES" (specification SpecLive)

session_vars ==
    <<candidate_name, job_position, interview_stage, last_question, memory,
      resume_entities>>

call_vars == <<last_op, arg, ret, calls, changed, pending>>

run_vars == <<pc, question, response, interview_active>>

vars == <<session_vars, call_vars, run_vars, affirmed>>

\* The session as one value, for the operators below.
Session ==
    [candidate_name |-> candidate_name, job_position |-> job_position,
     interview_stage |-> interview_stage, last_question |-> last_question,
     memory |-> memory, resume_entities |-> resume_entities]

\* The fields initialize_session assigns.
InitialSession ==
    [candidate_name |-> None, job_position |-> None,
     interview_stage |-> "introduction", last_question |-> <<>>,
     memory |-> <<>>, resume_entities |-> None]

(***************************************************************************)
(* The conversation buffer.                                                *)
(***************************************************************************)
\* save_context putting the new exchange first.
save_context_Front(mem, q, a) ==
    << [type |-> "human", content |-> q],
       [type |-> "ai", content |-> a] >> \o mem

\* memory.save_context({"input": q}, {"output": a}): a human message with
\* the input, then an ai message with the output.
save_context(mem, q, a) ==
    mem \o << [type |-> "human", content |-> q],
              [type |-> "ai", content |-> a] >>

TypeText(type) ==
    IF type = "human" THEN <<"h", "u", "m", "a", "n">> ELSE <<"a", "i">>

RECURSIVE JoinLines(_)
\* "\n".join([f"{msg.type}: {msg.content}" for msg in chat_history])
JoinLines(msgs) ==
    IF msgs = <<>> THEN <<>>
    ELSE LET line == TypeText(msgs[1].type) \o <<":", " ">> \o msgs[1].content
         IN  IF Len(msgs) = 1 THEN line
             ELSE line \o <<"\n">> \o JoinLines(Tail(msgs))

chat_history_str(mem) == JoinLines(mem)

\* The i-th recorded exchange as a (question, answer) pair.
Exchange(mem, i) ==
    [question |-> mem[2 * i - 1].content, answer |-> mem[2 * i].content]

Exchanges(mem) == Len(mem) \div 2

(***************************************************************************)
(* The controller's methods as functions of the session.  Each yields the  *)
(* session after the call (s), the value returned (ret, GenerationError if *)
(* the call raised) and the generation requests issued (calls).            *)
(***************************************************************************)
\* The request question_chain.run sends, with the service's reply.
QuestionRequest(s, reply) ==
    [kind |-> "question",
     job_position |-> IF Truthy(s.job_position) THEN s.job_position
                      ELSE ThePosition,
     stage |-> s.interview_stage,
     name |-> IF Truthy(s.candidate_name) THEN s.candidate_name
              ELSE UnknownName,
     chat_history |-> chat_history_str(s.memory),
     resume_info |-> IF Truthy(s.resume_entities) THEN StrOf(s.resume_entities)
                     ELSE NoResumeInfo,
     reply |-> reply]

\* The request should_advance_chain.run sends, with the service's reply.
DecisionRequest(s, reply) ==
    [kind |-> "decision",
     chat_history |-> chat_history_str(s.memory),
     stage |-> s.interview_stage,
     reply |-> reply]

\* get_next_question falling back on a canned question when the service
\* fails.
GetNextQuestion_Fallback(s, gen) ==
    IF s.interview_stage = "introduction"
    THEN IF ~Truthy(s.candidate_name)
         THEN [s |-> [s EXCEPT !.last_question = NamePrompt],
               ret |-> NamePrompt, calls |-> <<>>]
         ELSE IF ~Truthy(s.job_position)
         THEN [s |-> [s EXCEPT !.last_question = RolePrompt(s.candidate_name)],
               ret |-> RolePrompt(s.candidate_name), calls |-> <<>>]
         ELSE LET q == WelcomePrompt(s.candidate_name, s.job_position)
              IN  [s |-> [s EXCEPT !.interview_stage = "general_questions",
                                   !.last_question = q],
                   ret |-> q, calls |-> <<>>]
    ELSE LET q == IF gen = GenerationError THEN NamePrompt ELSE gen
         IN  [s |-> [s EXCEPT !.last_question = q],
              ret |-> q, calls |-> <<QuestionRequest(s, gen)>>]

\* get_next_question interpolating the role where the name belongs.
GetNextQuestion_SwapWelcome(s, gen) ==
    IF s.interview_stage = "introduction"
    THEN IF ~Truthy(s.candidate_name)
         THEN [s |-> [s EXCEPT !.last_question = NamePrompt],
               ret |-> NamePrompt, calls |-> <<>>]
         ELSE IF ~Truthy(s.job_position)
         THEN [s |-> [s EXCEPT !.last_question = RolePrompt(s.candidate_name)],
               ret |-> RolePrompt(s.candidate_name), calls |-> <<>>]
         ELSE LET q == WelcomePrompt(s.job_position, s.candidate_name)
              IN  [s |-> [s EXCEPT !.interview_stage = "general_questions",
                                   !.last_question = q],
                   ret |-> q, calls |-> <<>>]
    ELSE IF gen = GenerationError
         THEN [s |-> s, ret |-> GenerationError,
               calls |-> <<QuestionRequest(s, gen)>>]
         ELSE [s |-> [s EXCEPT !.last_question = gen],
               ret |-> gen, calls |-> <<QuestionRequest(s, gen)>>]

\* get_next_question returning a generated question without keeping it.
GetNextQuestion_NoStore(s, gen) ==
    IF s.interview_stage = "introduction"
    THEN IF ~Truthy(s.candidate_name)
         THEN [s |-> [s EXCEPT !.last_question = NamePrompt],
               ret |-> NamePrompt, calls |-> <<>>]
         ELSE IF ~Truthy(s.job_position)
         THEN [s |-> [s EXCEPT !.last_question = RolePrompt(s.candidate_name)],
               ret |-> RolePrompt(s.candidate_name), calls |-> <<>>]
         ELSE LET q == WelcomePrompt(s.candidate_name, s.job_position)
              IN  [s |-> [s EXCEPT !.interview_stage = "general_questions",
                                   !.last_question = q],
                   ret |-> q, calls |-> <<>>]
    ELSE [s |-> s, ret |-> gen, calls |-> <<QuestionRequest(s, gen)>>]

\* get_next_question leaving introduction as soon as the name is known.
GetNextQuestion_LeaveEarly(s, gen) ==
    IF s.interview_stage = "introduction"
    THEN IF ~Truthy(s.candidate_name)
         THEN [s |-> [s EXCEPT !.last_question = NamePrompt],
               ret |-> NamePrompt, calls |-> <<>>]
         ELSE LET q == RolePrompt(s.candidate_name)
              IN  [s |-> [s EXCEPT !.interview_stage = "general_questions",
                                   !.last_question = q],
                   ret |-> q, calls |-> <<>>]
    ELSE IF gen = GenerationError
         THEN [s |-> s, ret |-> GenerationError,
               calls |-> <<QuestionRequest(s, gen)>>]
         ELSE [s |-> [s EXCEPT !.last_question = gen],
               ret |-> gen, calls |-> <<QuestionRequest(s, gen)>>]

\* get_next_question; gen is the service's reply if it is asked.
GetNextQuestion(s, gen) ==
    IF s.interview_stage = "introduction"
    THEN IF ~Truthy(s.candidate_name)
         THEN [s |-> [s EXCEPT !.last_question = NamePrompt],
               ret |-> NamePrompt, calls |-> <<>>]
         ELSE IF ~Truthy(s.job_position)
         THEN [s |-> [s EXCEPT !.last_question = RolePrompt(s.candidate_name)],
               ret |-> RolePrompt(s.candidate_name), calls |-> <<>>]
         ELSE LET q == WelcomePrompt(s.candidate_name, s.job_position)
              IN  [s |-> [s EXCEPT !.interview_stage = "general_questions",
                                   !.last_question = q],
                   ret |-> q, calls |-> <<>>]
    ELSE IF gen = GenerationError
         THEN [s |-> s, ret |-> GenerationError,
               calls |-> <<QuestionRequest(s, gen)>>]
         ELSE [s |-> [s EXCEPT !.last_question = gen],
               ret |-> gen, calls |-> <<QuestionRequest(s, gen)>>]

\* advance_stage moving two positions at once.
AdvanceStage_SkipOne(s) ==
    LET current_index == StageIndex(s.interview_stage)
    IN  IF current_index < Len(stages) - 1
        THEN [s EXCEPT !.interview_stage = stages[current_index + 2]]
        ELSE s

\* advance_stage starting over after closing.
AdvanceStage_Wrap(s) ==
    LET current_index == StageIndex(s.interview_stage)
    IN  [s EXCEPT !.interview_stage = stages[(current_index % Len(stages)) + 1]]

\* advance_stage forgetting the question that was asked.
AdvanceStage_ClearsQuestion(s) ==
    LET current_index == StageIndex(s.interview_stage)
    IN  IF current_index < Len(stages)
        THEN [s EXCEPT !.interview_stage = stages[current_index + 1],
                       !.last_question = <<>>]
        ELSE s

\* advance_stage
AdvanceStage(s) ==
    LET current_index == StageIndex(s.interview_stage)
    IN  IF current_index < Len(stages)
        THEN [s EXCEPT !.interview_stage = stages[current_index + 1]]
        ELSE s

\* The decision test ignoring case.
IsAffirmative_AnyCase(advance_decision) ==
    Contains(lower(YES), lower(advance_decision))

\* The test `"YES" in advance_decision`.
IsAffirmative(advance_decision) == Contains(YES, advance_decision)

\* process_response storing the answer untrimmed.
ProcessResponse_NoStrip(s, answer, dec, gen) ==
    LET s1 == [s EXCEPT !.memory = save_context(s.memory, s.last_question, answer)]
    IN  IF s1.interview_stage = "introduction" /\ ~Truthy(s1.candidate_name)
        THEN GetNextQuestion([s1 EXCEPT !.candidate_name = answer], gen)
        ELSE IF s1.interview_stage = "introduction" /\ ~Truthy(s1.job_position)
        THEN GetNextQuestion([s1 EXCEPT !.job_position = answer], gen)
        ELSE IF s1.interview_stage # "closing"
        THEN IF dec = GenerationError
             THEN [s |-> s1, ret |-> GenerationError,
                   calls |-> <<DecisionRequest(s1, dec)>>]
             ELSE LET s2 == IF IsAffirmative(dec) THEN AdvanceStage(s1) ELSE s1
                      r  == GetNextQuestion(s2, gen)
                  IN  [r EXCEPT !.calls = <<DecisionRequest(s1, dec)>> \o @]
        ELSE GetNextQuestion(s1, gen)

\* process_response taking every answer given in introduction as the name
\* until the role is known.
ProcessResponse_Overwrite(s, answer, dec, gen) ==
    LET s1 == [s EXCEPT !.memory = save_context(s.memory, s.last_question, answer)]
    IN  IF s1.interview_stage = "introduction"
        THEN GetNextQuestion([s1 EXCEPT !.candidate_name = strip(answer)], gen)
        ELSE IF s1.interview_stage = "introduction" /\ ~Truthy(s1.job_position)
        THEN GetNextQuestion([s1 EXCEPT !.job_position = strip(answer)], gen)
        ELSE IF s1.interview_stage # "closing"
        THEN IF dec = GenerationError
             THEN [s |-> s1, ret |-> GenerationError,
                   calls |-> <<DecisionRequest(s1, dec)>>]
             ELSE LET s2 == IF IsAffirmative(dec) THEN AdvanceStage(s1) ELSE s1
                      r  == GetNextQuestion(s2, gen)
                  IN  [r EXCEPT !.calls = <<DecisionRequest(s1, dec)>> \o @]
        ELSE GetNextQuestion(s1, gen)

\* process_response asking for the next question before it applies the
\* decision.
ProcessResponse_AskBeforeAdvance(s, answer, dec, gen) ==
    LET s1 == [s EXCEPT !.memory = save_context(s.memory, s.last_question, answer)]
    IN  IF s1.interview_stage = "introduction" /\ ~Truthy(s1.candidate_name)
        THEN GetNextQuestion([s1 EXCEPT !.candidate_name = strip(answer)], gen)
        ELSE IF s1.interview_stage = "introduction" /\ ~Truthy(s1.job_position)
        THEN GetNextQuestion([s1 EXCEPT !.job_position = strip(answer)], gen)
        ELSE IF s1.interview_stage # "closing"
        THEN IF dec = GenerationError
             THEN [s |-> s1, ret |-> GenerationError,
                   calls |-> <<DecisionRequest(s1, dec)>>]
             ELSE LET r  == GetNextQuestion(s1, gen)
                      s2 == IF IsAffirmative(dec) THEN AdvanceStage(r.s)
                            ELSE r.s
                  IN  [s |-> s2, ret |-> r.ret,
                       calls |-> <<DecisionRequest(s1, dec)>> \o r.calls]
        ELSE GetNextQuestion(s1, gen)

\* process_response taking the advance back when the question request
\* fails.
ProcessResponse_UndoOnFailure(s, answer, dec, gen) ==
    LET s1 == [s EXCEPT !.memory = save_context(s.memory, s.last_question, answer)]
    IN  IF s1.interview_stage = "introduction" /\ ~Truthy(s1.candidate_name)
        THEN GetNextQuestion([s1 EXCEPT !.candidate_name = strip(answer)], gen)
        ELSE IF s1.interview_stage = "introduction" /\ ~Truthy(s1.job_position)
        THEN GetNextQuestion([s1 EXCEPT !.job_position = strip(answer)], gen)
        ELSE IF s1.interview_stage # "closing"
        THEN IF dec = GenerationError
             THEN [s |-> s1, ret |-> GenerationError,
                   calls |-> <<DecisionRequest(s1, dec)>>]
             ELSE LET s2 == IF IsAffirmative(dec) THEN AdvanceStage(s1) ELSE s1
                      r  == GetNextQuestion(s2, gen)
                  IN  [s |-> IF r.ret = GenerationError THEN s1 ELSE r.s,
                       ret |-> r.ret,
                       calls |-> <<DecisionRequest(s1, dec)>> \o r.calls]
        ELSE GetNextQuestion(s1, gen)

\* process_response; dec and gen are the service's replies to the decision
\* and to the question request, if they are asked.
ProcessResponse(s, answer, dec, gen) ==
    LET s1 == [s EXCEPT !.memory = save_context(s.memory, s.last_question, answer)]
    IN  IF s1.interview_stage = "introduction" /\ ~Truthy(s1.candidate_name)
        THEN GetNextQuestion([s1 EXCEPT !.candidate_name = strip(answer)], gen)
        ELSE IF s1.interview_stage = "introduction" /\ ~Truthy(s1.job_position)
        THEN GetNextQuestion([s1 EXCEPT !.job_position = strip(answer)], gen)
        ELSE IF s1.interview_stage # "closing"
        THEN IF dec = GenerationError
             THEN [s |-> s1, ret |-> GenerationError,
                   calls |-> <<DecisionRequest(s1, dec)>>]
             ELSE LET s2 == IF IsAffirmative(dec) THEN AdvanceStage(s1) ELSE s1
                      r  == GetNextQuestion(s2, gen)
                  IN  [r EXCEPT !.calls = <<DecisionRequest(s1, dec)>> \o @]
        ELSE GetNextQuestion(s1, gen)

\* set_resume_entities
SetResumeEntities(s, r) == [s EXCEPT !.resume_entities = r]

\* Assign the session s to the controller's fields.
Store(s) ==
    /\ candidate_name' = s.candidate_name
    /\ job_position' = s.job_position
    /\ interview_stage' = s.interview_stage
    /\ last_question' = s.last_question
    /\ memory' = s.memory
    /\ resume_entities' = s.resume_entities

(***************************************************************************)
(* Calls of the controller's methods: the session is updated and the call  *)
(* is recorded in last_op, arg, ret, calls, changed and pending.           *)
(***************************************************************************)
\* process_response reaches the advance-decision request.
AsksDecision(s) ==
    /\ ~(s.interview_stage = "introduction" /\ ~Truthy(s.candidate_name))
    /\ ~(s.interview_stage = "introduction" /\ ~Truthy(s.job_position))
    /\ s.interview_stage # "closing"

\* The replies the service can give to the requests a call issues: a text
\* or an exception for a request that is issued, None for one that is not.
DecisionReplies(asked) ==
    IF asked THEN Decisions \cup {GenerationError} ELSE {None}

QuestionReplies(asked) ==
    IF asked THEN GeneratedQuestions \cup {GenerationError} ELSE {None}

RunQuestionReplies(asked) ==
    IF asked THEN RunGeneratedQuestions \cup {GenerationError} ELSE {None}

\* initialize_session keeping the resume of the previous session.
CallInitializeSession_KeepResume ==
    /\ Store([InitialSession EXCEPT !.resume_entities = resume_entities])
    /\ last_op' = "initialize_session"
    /\ arg' = None
    /\ ret' = None
    /\ calls' = <<>>
    /\ changed' = (Session # InitialSession)
    /\ pending' = FALSE

CallInitializeSession ==
    /\ Store(InitialSession)
    /\ last_op' = "initialize_session"
    /\ arg' = None
    /\ ret' = None
    /\ calls' = <<>>
    /\ changed' = (Session # InitialSession)
    /\ pending' = FALSE

CallSetResumeEntities(r) ==
    /\ Store(SetResumeEntities(Session, r))
    /\ last_op' = "set_resume_entities"
    /\ arg' = r
    /\ ret' = None
    /\ calls' = <<>>
    /\ changed' = (SetResumeEntities(Session, r) # Session)
    /\ UNCHANGED pending

CallGetNextQuestion(gen) ==
    LET r == GetNextQuestion(Session, gen)
    IN  /\ Store(r.s)
        /\ last_op' = "get_next_question"
        /\ arg' = None
        /\ ret' = r.ret
        /\ calls' = r.calls
        /\ changed' = (r.s # Session)
        /\ pending' = IF r.ret = GenerationError THEN pending ELSE TRUE

CallAdvanceStage ==
    /\ Store(AdvanceStage(Session))
    /\ last_op' = "advance_stage"
    /\ arg' = None
    /\ ret' = None
    /\ calls' = <<>>
    /\ changed' = (AdvanceStage(Session) # Session)
    /\ UNCHANGED pending

CallProcessResponse(answer, dec, gen) ==
    LET r == ProcessResponse(Session, answer, dec, gen)
    IN  /\ Store(r.s)
        /\ last_op' = "process_response"
        /\ arg' = answer
        /\ ret' = r.ret
        /\ calls' = r.calls
        /\ changed' = (r.s # Session)
        /\ pending' = (r.ret # GenerationError)

\* The session holds the fields of s.
Holds(s) ==
    /\ candidate_name = s.candidate_name
    /\ job_position = s.job_position
    /\ interview_stage = s.interview_stage
    /\ last_question = s.last_question
    /\ memory = s.memory
    /\ resume_entities = s.resume_entities

\* AIInterviewer(): __init__ calls initialize_session.
Constructed ==
    /\ Holds(InitialSession)
    /\ last_op = "__init__"
    /\ arg = None
    /\ ret = None
    /\ calls = <<>>
    /\ changed = FALSE
    /\ pending = FALSE

(***************************************************************************)
(* Specification Spec: the controller's methods called in any order.       *)
(***************************************************************************)
Init ==
    /\ Constructed
    /\ pc = "idle"
    /\ question = None
    /\ response = None
    /\ interview_active = FALSE
    /\ affirmed = 0

initialize_session ==
    /\ CallInitializeSession
    /\ UNCHANGED <<run_vars, affirmed>>

set_resume_entities ==
    /\ \E r \in ResumeInputs : CallSetResumeEntities(r)
    /\ UNCHANGED <<run_vars, affirmed>>

get_next_question ==
    /\ \E gen \in QuestionReplies(interview_stage # "introduction") :
           CallGetNextQuestion(gen)
    /\ UNCHANGED <<run_vars, affirmed>>

advance_stage ==
    /\ CallAdvanceStage
    /\ UNCHANGED <<run_vars, affirmed>>

process_response ==
    /\ Exchanges(memory) < MaxTurns
    /\ \E answer \in Answers :
       \E dec \in DecisionReplies(AsksDecision(Session)) :
       \E gen \in QuestionReplies(dec # GenerationError
                                   /\ interview_stage # "introduction") :
           CallProcessResponse(answer, dec, gen)
    /\ UNCHANGED <<run_vars, affirmed>>

Next ==
    \/ initialize_session
    \/ set_resume_entities
    \/ get_next_question
    \/ advance_stage
    \/ process_response

Spec == Init /\ [][Next]_vars

(***************************************************************************)
(* Specification SpecFlow: an interview driven by get_next_question,       *)
(* process_response and initialize_session only; advance_stage and         *)
(* set_resume_entities are not called from outside.                        *)
(***************************************************************************)
flow_process_response ==
    /\ Exchanges(memory) < MaxFlowTurns
    /\ \E answer \in Answers :
       \E dec \in DecisionReplies(AsksDecision(Session)) :
       \E gen \in QuestionReplies(dec # GenerationError
                                   /\ interview_stage # "introduction") :
           CallProcessResponse(answer, dec, gen)
    /\ UNCHANGED <<run_vars, affirmed>>

NextFlow ==
    \/ initialize_session
    \/ get_next_question
    \/ flow_process_response

SpecFlow == Init /\ [][NextFlow]_vars

(***************************************************************************)
(* Specification SpecLive: one interview without reset and without         *)
(* generation failure, in which process_response is called with non-blank  *)
(* answers.  The turns whose decision contains "YES" are an action of      *)
(* their own, so that the service saying "YES" again and again is weak     *)
(* fairness of that action; all other turns are bounded by MaxLiveTurns.   *)
(***************************************************************************)
\* The non-blank answers given in that interview: one that needs trimming.
LiveAnswers == {a \in Answers : strip(a) # <<>> /\ strip(a) # a}

\* Decision texts that contain "YES", and the others.
YesDecisions == {d \in Decisions : Contains(YES, d)}

OtherDecisions == Decisions \ YesDecisions

\* process_response(answer) in introduction or closing, or with a decision
\* that does not contain "YES".
live_respond ==
    /\ Exchanges(memory) < MaxLiveTurns
    /\ \E answer \in LiveAnswers :
       \E dec \in IF AsksDecision(Session) THEN OtherDecisions ELSE {None} :
       \E gen \in IF interview_stage # "introduction"
                  THEN GeneratedQuestions ELSE {None} :
           CallProcessResponse(answer, dec, gen)
    /\ UNCHANGED <<run_vars, affirmed>>

\* process_response(answer) with a decision that contains "YES".
live_affirm ==
    /\ AsksDecision(Session)
    /\ \E answer \in LiveAnswers :
       \E dec \in YesDecisions :
       \E gen \in GeneratedQuestions :
           CallProcessResponse(answer, dec, gen)
    /\ affirmed' = affirmed + 1
    /\ UNCHANGED run_vars

\* get_next_question() called between answers.
live_get_next_question ==
    /\ \E gen \in IF interview_stage # "introduction"
                  THEN GeneratedQuestions ELSE {None} :
           CallGetNextQuestion(gen)
    /\ UNCHANGED <<run_vars, affirmed>>

NextLive ==
    \/ live_get_next_question
    \/ live_respond
    \/ live_affirm

SpecLive ==
    /\ Init
    /\ [][NextLive]_vars
    /\ WF_vars(live_respond)
    /\ WF_vars(live_affirm)

(***************************************************************************)
(* Specification SpecRun: the command-line loop run_interview.             *)
(*   pc = "start"    before the interviewer is given the resume            *)
(*        "loop"     at the test of `while interview_active`               *)
(*        "input"    at input("You: ")                                     *)
(*        "confirm"  at input("... Start a new interview? (y/n): ")        *)
(*        "done"     after the loop, printing the summary                  *)
(*        "crashed"  ended by an exception no handler caught               *)
(***************************************************************************)
InitRun ==
    /\ Constructed
    /\ pc = "start"
    /\ question = None
    /\ response = None
    /\ interview_active = FALSE
    /\ affirmed = 0

\* interviewer.set_resume_entities(sample_resume_info); interview_active = True
run_setup ==
    /\ pc = "start"
    /\ CallSetResumeEntities(sample_resume_info)
    /\ interview_active' = TRUE
    /\ pc' = "loop"
    /\ UNCHANGED <<question, response, affirmed>>

\* question = interviewer.get_next_question(), then the question is printed.
run_ask ==
    /\ pc = "loop"
    /\ interview_active
    /\ \E gen \in RunQuestionReplies(interview_stage # "introduction") :
        /\ CallGetNextQuestion(gen)
        /\ IF GetNextQuestion(Session, gen).ret = GenerationError
           THEN pc' = "crashed" /\ UNCHANGED question
           ELSE pc' = "input"
                /\ question' = GetNextQuestion(Session, gen).ret
    /\ UNCHANGED <<response, interview_active, affirmed>>

\* The restart supplying the resume without initialize_session.
RestartSession_KeepSession ==
    /\ Store(SetResumeEntities(Session, sample_resume_info))
    /\ last_op' = "set_resume_entities"
    /\ arg' = sample_resume_info
    /\ ret' = None
    /\ calls' = <<>>
    /\ changed' = TRUE
    /\ pending' = FALSE

\* initialize_session() followed by set_resume_entities(sample_resume_info).
RestartSession ==
    /\ Store(SetResumeEntities(InitialSession, sample_resume_info))
    /\ last_op' = "set_resume_entities"
    /\ arg' = sample_resume_info
    /\ ret' = None
    /\ calls' = <<>>
    /\ changed' = TRUE
    /\ pending' = FALSE

\* The test that ends the interview on the wording of the question.
IsFarewell(q) ==
    \/ Contains(ThankYouPhrase, lower(q))
    \/ Contains(CompletePhrase, lower(q))

\* response = input("You: ") and the rest of the loop body up to the next
\* input or the next test of the loop.
run_input ==
    /\ pc = "input"
    /\ UNCHANGED affirmed
    /\ \E line \in RunInputs :
        /\ response' = line
        /\ IF lower(line) = RestartCommand
           THEN /\ RestartSession
                /\ pc' = "loop"
                /\ UNCHANGED <<question, interview_active>>
           ELSE IF lower(line) = ExitCommand
           THEN /\ interview_active' = FALSE
                /\ pc' = "done"
                /\ UNCHANGED <<session_vars, call_vars, question>>
           ELSE IF IsFarewell(question)
           THEN /\ interview_active' = FALSE
                /\ pc' = "confirm"
                /\ UNCHANGED <<session_vars, call_vars, question>>
           ELSE /\ Exchanges(memory) < MaxRunTurns
                /\ \E dec \in DecisionReplies(AsksDecision(Session)) :
                   \E gen \in RunQuestionReplies(dec # GenerationError
                                   /\ interview_stage # "introduction") :
                       /\ CallProcessResponse(line, dec, gen)
                       /\ pc' = IF ProcessResponse(Session, line, dec, gen).ret
                                     = GenerationError
                                THEN "crashed" ELSE "loop"
                /\ UNCHANGED <<question, interview_active>>

\* new_interview = input("... (y/n): ") and the rest of the loop body.
run_confirm ==
    /\ pc = "confirm"
    /\ UNCHANGED affirmed
    /\ \E new_interview \in ConfirmInputs :
        IF lower(new_interview) = <<"y">>
        THEN /\ RestartSession
             /\ interview_active' = TRUE
             /\ pc' = "loop"
             /\ UNCHANGED <<question, response>>
        ELSE /\ pc' = "done"
             /\ UNCHANGED <<session_vars, call_vars, question, response,
                            interview_active>>

NextRun ==
    \/ run_setup
    \/ run_ask
    \/ run_input
    \/ run_confirm

SpecRun == InitRun /\ [][NextRun]_vars

(***************************************************************************)
(* Properties.                                                             *)
(***************************************************************************)
\* The step is a call of one of the three methods that drive an interview.
InterviewCall ==
    last_op' \in {"get_next_question", "process_response", "advance_stage"}

\* Stage `to` is stage `from` or its immediate successor in the fixed order.
SameOrNext(from, to) ==
    \/ StageIndex(to) = StageIndex(from)
    \/ StageIndex(to) = StageIndex(from) + 1

\* C1: between resets, every call of get_next_question, process_response or
\* advance_stage leaves interview_stage unchanged or at its immediate
\* successor in the fixed order: it never decreases and never moves by more
\* than one position.
C1_StageStepsByAtMostOne ==
    [][InterviewCall => SameOrNext(interview_stage, interview_stage')]_vars

\* The process_response call that set the job position has moved the stage
\* from introduction to general_questions.
C1_Witness ==
    /\ last_op = "process_response"
    /\ calls = <<>>
    /\ Truthy(job_position)
    /\ interview_stage = "general_questions"

\* The text d has the three characters Y, E, S in a row.
HasYES(d) ==
    \E i \in 1..(Len(d) - 2) : d[i] = "Y" /\ d[i + 1] = "E" /\ d[i + 2] = "S"

\* C2: a process_response call at a stage that is neither introduction nor
\* closing asks for the advance decision, and for every decision text d the
\* service returns, the stage after the call is the successor of the stage
\* before it if d contains "YES" (case-sensitive) and the stage before it
\* otherwise.
C2_AdvancesIffYES ==
    [][(/\ last_op' = "process_response"
        /\ interview_stage \notin {"introduction", "closing"})
       => /\ calls' # <<>>
          /\ calls'[1].kind = "decision"
          /\ calls'[1].reply # GenerationError
             => StageIndex(interview_stage') =
                  StageIndex(interview_stage)
                    + (IF HasYES(calls'[1].reply) THEN 1 ELSE 0)]_vars

\* A decision that merely contains YES has advanced general_questions to
\* technical_questions.
C2_Witness ==
    /\ last_op = "process_response"
    /\ Len(calls) = 2
    /\ calls[1].stage = "general_questions"
    /\ calls[1].reply # YES
    /\ HasYES(calls[1].reply)
    /\ interview_stage = "technical_questions"

\* C3: closing is terminal: advance_stage at closing leaves the whole session
\* unchanged, process_response at closing issues no advance-decision request
\* and leaves the stage at closing, and only initialize_session takes the
\* stage away from closing.
C3_ClosingIsTerminal ==
    [][interview_stage = "closing"
       => /\ last_op' = "advance_stage" => UNCHANGED session_vars
          /\ last_op' = "process_response"
             => \A i \in 1..Len(calls') : calls'[i].kind # "decision"
          /\ last_op' # "initialize_session" => interview_stage' = "closing"]_vars

\* advance_stage was called at closing.
C3_Witness ==
    /\ last_op = "advance_stage"
    /\ interview_stage = "closing"
    /\ ~changed

\* C4: every process_response call appends exactly one (question, answer)
\* entry, holding the pending question and the answer passed, after the
\* entries already there; get_next_question, advance_stage and
\* set_resume_entities leave the transcript as it is; only
\* initialize_session empties it.
C4_TranscriptAppendOnly ==
    [][/\ last_op' = "process_response"
          => /\ Exchanges(memory') = Exchanges(memory) + 1
             /\ SubSeq(memory', 1, Len(memory)) = memory
             /\ Exchange(memory', Exchanges(memory')) =
                   [question |-> last_question, answer |-> arg']
       /\ last_op' \in {"get_next_question", "advance_stage",
                        "set_resume_entities"}
          => memory' = memory
       /\ (memory # <<>> /\ memory' = <<>>)
          => last_op' = "initialize_session"]_vars

\* Two calls have been recorded in call order, the second of which raised.
C4_Witness ==
    /\ last_op = "process_response"
    /\ ret = GenerationError
    /\ Exchanges(memory) = 2
    /\ Exchange(memory, 1).answer # Exchange(memory, 2).answer
    /\ Exchange(memory, 2).answer = arg

\* The text t is the text a without its leading and trailing whitespace.
IsTrimOf(t, a) ==
    \E i, j \in 0..Len(a) :
        /\ i + j <= Len(a)
        /\ \A k \in 1..i : a[k] \in Whitespace
        /\ \A k \in (Len(a) - j + 1)..Len(a) : a[k] \in Whitespace
        /\ t = SubSeq(a, i + 1, Len(a) - j)
        /\ t # <<>> => (t[1] \notin Whitespace /\ t[Len(t)] \notin Whitespace)

\* A session in which nothing has been asked or answered yet.
FreshSession ==
    /\ candidate_name = None
    /\ job_position = None
    /\ interview_stage = "introduction"
    /\ last_question = <<>>
    /\ memory = <<>>

\* A fresh session on which get_next_question has just been called.
NameAsked ==
    /\ candidate_name = None
    /\ job_position = None
    /\ interview_stage = "introduction"
    /\ last_question = NamePrompt
    /\ memory = <<>>
    /\ last_op = "get_next_question"

\* C5 as stated: on a fresh session the first get_next_question returns the
\* name prompt with no generation call, and then process_response(a), for
\* every answer a, sets candidate_name to a trimmed and returns the role
\* prompt interpolating that name, with no generation call.
C5_AnyAnswerGetsRolePrompt ==
    [][/\ (FreshSession /\ last_op' = "get_next_question")
          => (ret' = NamePrompt /\ calls' = <<>>)
       /\ (NameAsked /\ last_op' = "process_response")
          => /\ IsTrimOf(candidate_name', arg')
             /\ ret' = RolePrompt(candidate_name')
             /\ calls' = <<>>]_vars

\* C5 amended: on a fresh session the first get_next_question returns the
\* name prompt with no generation call, and then process_response(a) sets
\* candidate_name to a trimmed, with no generation call; it returns the role
\* prompt interpolating that name if the trimmed answer is not empty, and
\* the name prompt again if it is empty.
C5_NonBlankAnswerGetsRolePrompt ==
    [][/\ (FreshSession /\ last_op' = "get_next_question")
          => (ret' = NamePrompt /\ calls' = <<>>)
       /\ (NameAsked /\ last_op' = "process_response")
          => /\ IsTrimOf(candidate_name', arg')
             /\ ret' = IF candidate_name' # <<>>
                       THEN RolePrompt(candidate_name') ELSE NamePrompt
             /\ calls' = <<>>]_vars

\* A padded answer to the name prompt has been trimmed and the role prompt
\* returned.
C5_Witness ==
    /\ last_op = "process_response"
    /\ Exchanges(memory) = 1
    /\ Exchange(memory, 1).question = NamePrompt
    /\ arg # candidate_name
    /\ candidate_name # <<>>
    /\ ret = RolePrompt(candidate_name)

\* The step leaves introduction with the welcome text and no generation
\* call.
WelcomesCandidate ==
    /\ interview_stage' = "general_questions"
    /\ ret' = WelcomePrompt(candidate_name', job_position')
    /\ calls' = <<>>

\* C6 as stated: when the stage is introduction and candidate_name and
\* job_position have both been assigned, the next get_next_question, also
\* the one at the end of the process_response that assigned the job
\* position, moves the stage to general_questions, returns the welcome text
\* interpolating name and role, and issues no generation call.
C6_BothSetWelcomes ==
    [][/\ (/\ last_op' = "get_next_question"
           /\ interview_stage = "introduction"
           /\ candidate_name # None
           /\ job_position # None) => WelcomesCandidate
       /\ (/\ last_op' = "process_response"
           /\ interview_stage = "introduction"
           /\ candidate_name # None
           /\ job_position = None
           /\ job_position' # None) => WelcomesCandidate]_vars

\* C6 amended: the same, when candidate_name and job_position are both set
\* to non-empty strings.
C6_BothNonEmptyWelcomes ==
    [][/\ (/\ last_op' = "get_next_question"
           /\ interview_stage = "introduction"
           /\ Truthy(candidate_name)
           /\ Truthy(job_position)) => WelcomesCandidate
       /\ (/\ last_op' = "process_response"
           /\ interview_stage = "introduction"
           /\ Truthy(candidate_name)
           /\ ~Truthy(job_position)
           /\ Truthy(job_position')) => WelcomesCandidate]_vars

\* The process_response that set the job position returned the welcome text
\* for a name and a role that differ.
C6_Witness ==
    /\ last_op = "process_response"
    /\ Exchanges(memory) = 2
    /\ Truthy(candidate_name)
    /\ Truthy(job_position)
    /\ candidate_name # job_position
    /\ ret = WelcomePrompt(candidate_name, job_position)
    /\ interview_stage = "general_questions"

\* C7: when the generation service fails in a get_next_question call at a
\* stage after introduction, the call raises, and the stage, the transcript
\* and the pending question are what they were before the call.
C7_FailedQuestionChangesNothing ==
    [][(/\ last_op' = "get_next_question"
        /\ interview_stage # "introduction"
        /\ calls' # <<>>
        /\ calls'[1].reply = GenerationError)
       => /\ ret' = GenerationError
          /\ UNCHANGED <<interview_stage, memory, last_question>>]_vars

\* get_next_question has raised while a question was pending.
C7_Witness ==
    /\ last_op = "get_next_question"
    /\ ret = GenerationError
    /\ interview_stage # "introduction"
    /\ last_question # <<>>
    /\ memory # <<>>

\* C8: after initialize_session the session is that of a freshly constructed
\* interviewer: candidate_name and job_position unset, stage introduction,
\* pending question empty, transcript empty, resume context unset.
C8_ResetGivesFreshSession ==
    last_op = "initialize_session"
    => /\ candidate_name = None
       /\ job_position = None
       /\ interview_stage = "introduction"
       /\ last_question = <<>>
       /\ memory = <<>>
       /\ resume_entities = None

\* initialize_session was called on a session that was not fresh.
C8_Witness ==
    /\ last_op = "initialize_session"
    /\ changed

\* Neither the name prompt nor the role prompt is returned.
NoIntroductionPrompt ==
    /\ ret' # NamePrompt
    /\ ret' # RolePrompt(candidate_name')

C10_EveryQuestionRecorded ==
    [][/\ (pc = "loop" /\ pc' = "input" /\ pending)
          => last_question' = last_question
       /\ (pc = "input" /\ last_op' = "process_response")
          => Exchange(memory', Exchanges(memory')) =
                [question |-> question, answer |-> response']]_vars

\* C11: the loop of run_interview goes on while the stage is before closing
\* and neither /exit nor /restart is typed, and stops once closing is
\* reached; stated here for the end of the loop: when the loop has ended
\* and the last line typed was not /exit, the stage is closing.
C11_LoopEndsOnlyAtClosing ==
    (pc = "done" /\ lower(response) # ExitCommand)
    => interview_stage = "closing"

\* The text h ends with the text t.
EndsWith(h, t) ==
    /\ Len(t) <= Len(h)
    /\ SubSeq(h, Len(h) - Len(t) + 1, Len(h)) = t

\* The rendering of an answer as the last line of a prompt transcript.
AnswerLine(a) == <<"a", "i", ":", " ">> \o a

\* C12: a process_response call at a stage that is neither introduction nor
\* closing first appends the exchange, then issues one advance-decision
\* request, whose transcript ends with the answer just recorded and whose
\* stage is the stage before the call, then applies the advance, and then,
\* unless the decision request failed, issues one question request whose
\* stage is the stage after the call; it issues nothing else.  A call in
\* introduction issues no request.
C12_RequestsInOrder ==
    [][last_op' = "process_response"
       => /\ interview_stage = "introduction" => calls' = <<>>
          /\ interview_stage \notin {"introduction", "closing"}
             => /\ Len(calls') \in {1, 2}
                /\ calls'[1].kind = "decision"
                /\ calls'[1].stage = interview_stage
                /\ EndsWith(calls'[1].chat_history, AnswerLine(arg'))
                /\ Len(calls') = 2 <=> calls'[1].reply # GenerationError
                /\ Len(calls') = 2
                   => /\ calls'[2].kind = "question"
                      /\ calls'[2].stage = interview_stage'
                      /\ EndsWith(calls'[2].chat_history, AnswerLine(arg'))]_vars

\* A call has asked for the decision at one stage and for the question at
\* the next.
C12_Witness ==
    /\ last_op = "process_response"
    /\ Len(calls) = 2
    /\ calls[1].stage = "general_questions"
    /\ calls[2].stage = "technical_questions"
    /\ calls[2].reply # GenerationError

\* C13: the pending question is the text returned by the most recent
\* get_next_question or process_response call that returned since the last
\* reset, and the empty text if there is none: a call that returns a text
\* has stored it in last_question, a call that raises and every other
\* method but initialize_session leave last_question as it was, and
\* initialize_session empties it; and the entry process_response(a) appends
\* is (the pending question at the moment of the call, a).
C13_PendingQuestionIsLastReturned ==
    [][/\ (last_op' \in {"get_next_question", "process_response"}
           /\ ret' # GenerationError) => last_question' = ret'
       /\ (last_op' \in {"get_next_question", "process_response"}
           /\ ret' = GenerationError) => last_question' = last_question
       /\ last_op' \in {"advance_stage", "set_resume_entities"}
          => last_question' = last_question
       /\ last_op' = "initialize_session" => last_question' = <<>>
       /\ last_op' = "process_response"
          => Exchange(memory', Exchanges(memory')) =
                [question |-> last_question, answer |-> arg']]_vars

\* The second exchange has been recorded against the question the first
\* process_response call returned, and the welcome text is pending now.
C13_Witness ==
    /\ last_op = "process_response"
    /\ Exchanges(memory) = 2
    /\ Exchange(memory, 2).question = RolePrompt(candidate_name)
    /\ Exchange(memory, 1).question = NamePrompt
    /\ last_question = ret
    /\ ret = WelcomePrompt(candidate_name, job_position)

\* C14: when a generation request fails inside process_response the call
\* raises without asking again: the failed request is the last one issued
\* and each kind of request was issued at most once.  The exchange is
\* already appended and the pending question is unchanged; the stage is
\* unchanged if the decision request failed, and is one position further if
\* the question request failed after an affirmative decision.
C14_FailureInsideProcessResponse ==
    [][(last_op' = "process_response" /\ ret' = GenerationError)
       => /\ Exchanges(memory') = Exchanges(memory) + 1
          /\ Exchange(memory', Exchanges(memory')).answer = arg'
          /\ last_question' = last_question
          /\ Len(calls') \in {1, 2}
          /\ calls'[Len(calls')].reply = GenerationError
          /\ Len(calls') = 2
             => /\ calls'[1].kind = "decision"
                /\ calls'[1].reply # GenerationError
                /\ calls'[2].kind = "question"
          /\ calls'[Len(calls')].kind = "decision"
             => interview_stage' = interview_stage
          /\ calls'[Len(calls')].kind = "question"
             => StageIndex(interview_stage') =
                  StageIndex(interview_stage)
                    + (IF Len(calls') = 2 /\ HasYES(calls'[1].reply)
                       THEN 1 ELSE 0)]_vars

\* The question request has failed after an affirmative decision: the stage
\* has moved on and the question answered by the call is still pending.
C14_Witness ==
    /\ last_op = "process_response"
    /\ ret = GenerationError
    /\ Len(calls) = 2
    /\ HasYES(calls[1].reply)
    /\ calls[1].stage = "general_questions"
    /\ interview_stage = "technical_questions"
    /\ last_question = Exchange(memory, Exchanges(memory)).question

\* The lines run_interview takes as commands.
ControlInputs == {RestartCommand, ExitCommand}

\* C15: in run_interview every line typed at the prompt that is not /restart
\* or /exit (in any case) is passed to process_response once, with the
\* question displayed for it: the step that reads the line appends the
\* exchange (question displayed, line) to the transcript.
C15_EveryAnswerRecorded ==
    [][(pc = "input" /\ pc' # "input" /\ lower(response') \notin ControlInputs)
       => /\ Exchanges(memory') = Exchanges(memory) + 1
          /\ Exchange(memory', Exchanges(memory')) =
                [question |-> question, answer |-> response']]_vars

\* No exchange of the transcript has a command as its answer.
NoControlRecorded ==
    \A i \in 1..Exchanges(memory) :
        lower(Exchange(memory, i).answer) \notin ControlInputs

\* C16: in run_interview /restart and /exit (in any case) are never passed
\* to process_response and never recorded in the transcript; /restart
\* leaves a fresh session holding the sample resume, for which the next
\* question displayed is the name prompt, asked without a generation call;
\* /exit ends the loop, and neither that step nor any later one changes the
\* session.
C16_ControlInputsAreNotAnswers ==
    [][/\ NoControlRecorded'
       /\ last_op' = "process_response" => lower(arg') \notin ControlInputs
       /\ (pc = "input" /\ lower(response') = RestartCommand)
          => /\ pc' = "loop"
             /\ FreshSession'
             /\ resume_entities' = sample_resume_info
       /\ (pc = "loop" /\ FreshSession /\ pc' # "loop")
          => /\ pc' = "input"
             /\ question' = NamePrompt
             /\ calls' = <<>>
       /\ (pc = "input" /\ lower(response') = ExitCommand)
          => /\ pc' = "done"
             /\ UNCHANGED session_vars
       /\ pc = "done" => UNCHANGED session_vars]_vars

\* After exchanges were recorded /Restart was typed, and the name prompt is
\* displayed again for an empty transcript.
C16_Witness ==
    /\ pc = "input"
    /\ lower(response) = RestartCommand
    /\ response # RestartCommand
    /\ question = NamePrompt
    /\ calls = <<>>
    /\ memory = <<>>
    /\ resume_entities = sample_resume_info

\* C17: a generation failure during run_interview does not end the program
\* abnormally.
C17_FailureDoesNotCrash == pc # "crashed"

\* C18: when only get_next_question, process_response and
\* initialize_session are called on a fresh session, a stage other than
\* introduction implies that candidate_name and job_position are both
\* non-empty texts; no advance-decision request is issued for the stage
\* introduction, and no question request carries the placeholder "Unknown"
\* or "the position".
C18_PastIntroductionBothKnown ==
    /\ interview_stage # "introduction"
       => (Truthy(candidate_name) /\ Truthy(job_position))
    /\ \A i \in 1..Len(calls) :
        /\ calls[i].kind = "decision" => calls[i].stage # "introduction"
        /\ calls[i].kind = "question"
           => /\ calls[i].name # UnknownName
              /\ calls[i].job_position # ThePosition

\* process_response has issued a decision request and a question request
\* past introduction.
C18_Witness ==
    /\ last_op = "process_response"
    /\ interview_stage # "introduction"
    /\ Len(calls) = 2
    /\ calls[1].kind = "decision"
    /\ calls[2].kind = "question"
    /\ calls[2].name = candidate_name

\* C20: get_next_question leaves the transcript, candidate_name,
\* job_position and the resume unchanged, and changes the stage only from
\* introduction, to general_questions, with both fields non-empty;
\* process_response and advance_stage leave the resume unchanged;
\* advance_stage changes nothing but the stage.
C20_FrameConditions ==
    [][/\ last_op' = "get_next_question"
          => /\ UNCHANGED <<memory, candidate_name, job_position,
                            resume_entities>>
             /\ interview_stage' # interview_stage
                => /\ interview_stage = "introduction"
                   /\ interview_stage' = "general_questions"
                   /\ Truthy(candidate_name)
                   /\ Truthy(job_position)
       /\ last_op' \in {"process_response", "advance_stage"}
          => UNCHANGED resume_entities
       /\ last_op' = "advance_stage"
          => UNCHANGED <<candidate_name, job_position, last_question,
                         memory, resume_entities>>]_vars

\* advance_stage has moved the stage of a session that holds a name, a
\* question, a transcript and a resume.
C20_Witness ==
    /\ last_op = "advance_stage"
    /\ changed
    /\ Truthy(candidate_name)
    /\ last_question # <<>>
    /\ memory # <<>>
    /\ resume_entities # None

\* C19: in an interview without reset and without generation failure, in
\* which process_response keeps being called with non-blank answers and
\* the decision keeps containing "YES", the stage eventually is closing and
\* remains closing; past introduction the stage is the one reached from
\* general_questions by as many steps as decisions contained "YES", so it
\* is closing after exactly four of them and general_questions while there
\* was none.
C19_ReachesClosingAndStays ==
    /\ [](interview_stage # "introduction"
          => StageIndex(interview_stage)
               = StageIndex("general_questions") + affirmed)
    /\ [](interview_stage = "introduction" => affirmed = 0)
    /\ <>[](interview_stage = "closing")

\* The stage is closing after four affirmative decisions and after
\* decisions without "YES", and an answer was processed in closing.
C19_Witness ==
    /\ interview_stage = "closing"
    /\ affirmed = 4
    /\ last_op = "process_response"
    /\ Len(calls) = 1
    /\ Exchanges(memory) > 7
    /\ \E i \in 1..Exchanges(memory) :
          Exchange(memory, i).question = WelcomePrompt(candidate_name, job_position)

====
